---------------------------- MODULE Spec2Model ----------------------------
(***************************************************************************)
(* django-view-accessories: the view decorators of view_accessories       *)
(* (generic.py, list.py, detail.py, edit.py, form.py, __init__.py) as a    *)
(* state machine.                                                          *)
(*                                                                         *)
(* A behaviour starts after decoration: cfg is the decorator and the       *)
(* arguments it was given, db the stored Widget rows (their ids under the  *)
(* list views, the table with pk and text under the detail and edit        *)
(* views).  Each step is one                                               *)
(* call of the decorated function (or of paginate_queryset) on one of the  *)
(* request objects; `last` records the call and its outcome, and           *)
(* `accessories` is the request.accessories attribute of every request.    *)
(*                                                                         *)
(* Python values: a str is a TLA+ string where it is only compared or      *)
(* concatenated, and a sequence of one-character strings where int() has   *)
(* to parse it (query-string values, the per_page argument).  A dict is a  *)
(* function on its keys.  An exception is the name of its class.           *)
(***************************************************************************)
EXTENDS Integers, Sequences, FiniteSets, TLC

VARIABLES cfg, db, accessories, last

vars == <<cfg, db, accessories, last>>

(***************************************************************************)
(* Bounds                                                                  *)
(***************************************************************************)
\* most Widget rows in the store, besides the 23 of the test scenario
MaxWidgets == 5

\* Pagination.setUp creates 23 widgets
ScenarioWidgets == 23

\* most Widget rows in the store under a list view
MaxListWidgets == 2

\* most Widget rows in the store under a detail or edit view
MaxEntities == 2

\* the request objects of a behaviour
Requests == {"r1"}

(***************************************************************************)
(* Python helpers                                                          *)
(***************************************************************************)
None == [t |-> "None"]

NoExc == "none"

EmptyDict == [k \in {} |-> None]

\* dict.update(kw)
DictUpdate(d, kw) ==
    [k \in (DOMAIN d) \cup (DOMAIN kw) |-> IF k \in DOMAIN kw THEN kw[k] ELSE d[k]]

\* sep.join(s) for a sequence of strings
RECURSIVE Join(_, _)
Join(sep, s) ==
    IF s = <<>> THEN ""
    ELSE IF Len(s) = 1 THEN s[1]
    ELSE s[1] \o sep \o Join(sep, Tail(s))

\* x in s, for a list or tuple s
In(x, s) == \E i \in 1..Len(s) : s[i] = x

\* Python int and str values where both can occur
PyInt(n) == [t |-> "int", v |-> n]

PyStr(s) == [t |-> "str", v |-> s]

DigitValue(c) ==
    CASE c = "0" -> 0 [] c = "1" -> 1 [] c = "2" -> 2 [] c = "3" -> 3
      [] c = "4" -> 4 [] c = "5" -> 5 [] c = "6" -> 6 [] c = "7" -> 7
      [] c = "8" -> 8 [] c = "9" -> 9

IsDigit(c) == c \in {"0", "1", "2", "3", "4", "5", "6", "7", "8", "9"}

RECURSIVE DigitsValue(_)
DigitsValue(s) ==
    IF s = <<>> THEN 0
    ELSE 10 * DigitsValue(SubSeq(s, 1, Len(s) - 1)) + DigitValue(s[Len(s)])

\* int(x): an int is returned as it is; a str is parsed as an optional sign
\* and decimal digits, and anything else in it raises ValueError
int(x) ==
    IF x.t = "int" THEN [raised |-> NoExc, v |-> x.v]
    ELSE LET signed == x.v # <<>> /\ x.v[1] \in {"-", "+"}
             digits == IF signed THEN Tail(x.v) ELSE x.v
         IN  IF digits # <<>> /\ \A i \in 1..Len(digits) : IsDigit(digits[i])
             THEN [raised |-> NoExc,
                   v |-> IF signed /\ x.v[1] = "-" THEN 0 - DigitsValue(digits)
                         ELSE DigitsValue(digits)]
             ELSE [raised |-> "ValueError", v |-> 0]

Max(a, b) == IF a >= b THEN a ELSE b

Min(a, b) == IF a <= b THEN a ELSE b

\* request.GET, a QueryDict: name -> value pairs, one value for each name
QueryHas(GET, name) == \E p \in GET : p[1] = name

QueryGet(GET, name) == (CHOOSE p \in GET : p[1] = name)[2]

(***************************************************************************)
(* view_accessories/__init__.py                                            *)
(***************************************************************************)
\* a request object without the accessories attribute
NoAccessories == [has |-> FALSE, d |-> EmptyDict]

\* accessorize assigning the given names as the whole dict instead of
\* updating the dict the request has
accessorize_replace(acc, kwargs) == [has |-> TRUE, d |-> kwargs]

\* accessorize(request, **kwargs): the request's accessories afterwards
accessorize(acc, kwargs) ==
    [has |-> TRUE,
     d   |-> DictUpdate(IF acc.has THEN acc.d ELSE EmptyDict, kwargs)]

(***************************************************************************)
(* view_accessories/generic.py                                             *)
(***************************************************************************)
HTTP_METHODS ==
    <<"GET", "POST", "PUT", "PATCH", "DELETE", "HEAD", "OPTIONS", "TRACE">>

\* the methods argument: None, or a list of verbs
MethodList(s) == [t |-> "list", v |-> s]

\* `methods or HTTP_METHODS`
EffectiveMethods(methods) ==
    IF methods.t = "list" /\ Len(methods.v) > 0 THEN methods.v ELSE HTTP_METHODS

\* the outcome of calling a function: the exception raised (or NoExc), the
\* value returned, and the invocations of the decorated handler it made
Returned(ret, calls) == [raised |-> NoExc, msg |-> "", ret |-> ret, calls |-> calls]

Raised(exc, msg, calls) == [raised |-> exc, msg |-> msg, ret |-> None, calls |-> calls]

\* the decorated function: application code, which returns hres
Func(r, args, kwargs, acc, hres) ==
    Returned(hres, <<[request |-> r, args |-> args, kwargs |-> kwargs,
                      accessories |-> acc]>>)

\* django.http.HttpResponseNotAllowed(permitted_methods)
HttpResponseNotAllowed(methods) ==
    [kind |-> "HttpResponseNotAllowed", status |-> 405,
     Allow |-> Join(", ", methods)]

\* options(request, methods)
options(methods) ==
    [kind |-> "HttpResponse", status |-> 200,
     Allow |-> Join(", ", methods), ContentLength |-> "0"]

\* view() without the membership test of the allow-list
view_ungated(methods, method, r, args, kwargs, acc, hres) ==
    IF method = "OPTIONS"
    THEN Returned(options(EffectiveMethods(methods)), <<>>)
    ELSE Func(r, args, kwargs, acc, hres)

\* view(func, methods=methods)(request, *args, **kwargs)
view(methods, method, r, args, kwargs, acc, hres) ==
    IF method = "OPTIONS"
    THEN Returned(options(EffectiveMethods(methods)), <<>>)
    ELSE IF ~In(method, EffectiveMethods(methods))
    THEN Returned(HttpResponseNotAllowed(EffectiveMethods(methods)), <<>>)
    ELSE Func(r, args, kwargs, acc, hres)

\* the decorated function, as the templates are named after it
FuncModule == <<"test_app", "views">>

FuncName == "my_view"

\* module.partition('.views')[0], the module name given by its dotted parts
RECURSIVE BeforeViews(_)
BeforeViews(parts) ==
    IF parts = <<>> \/ parts[1] = "views" THEN <<>>
    ELSE <<parts[1]>> \o BeforeViews(Tail(parts))

\* django.shortcuts.render(request, template_name, context)
render(template_name, context) ==
    [kind |-> "rendered", status |-> 200, template_name |-> template_name,
     context |-> context]

\* template_view rendering the handler's return value even when it is None
template_view_no_fallback(template_name, methods, method, r, args, kwargs, acc, hres) ==
    LET response == view(methods, method, r, args, kwargs, acc, hres)
        my_template_name ==
            IF template_name # None /\ template_name.v # "" THEN template_name.v
            ELSE Join(".", BeforeViews(FuncModule)) \o "/" \o FuncName \o ".html"
    IN  Returned(render(my_template_name, response.ret), response.calls)

\* template_view(template_name=..., methods=...)(func)(request, *args, **kwargs);
\* template_name is None or a str
template_view(template_name, methods, method, r, args, kwargs, acc, hres) ==
    LET response == view(methods, method, r, args, kwargs, acc, hres)
        context  == IF response.ret # None THEN response.ret ELSE kwargs
        my_template_name ==
            IF template_name # None /\ template_name.v # "" THEN template_name.v
            ELSE Join(".", BeforeViews(FuncModule)) \o "/" \o FuncName \o ".html"
    IN  Returned(render(my_template_name, context), response.calls)

\* a Python bool where other values can occur too
PyBool(b) == [t |-> "bool", v |-> b]

\* `not url`: None, the empty str and False are false; a response object,
\* which the gate may have returned in place of a URL, is true
Not(url) ==
    \/ url = None
    \/ "t" \in DOMAIN url /\ url.t = "str" /\ url.v = ""
    \/ "t" \in DOMAIN url /\ url.t = "bool" /\ ~url.v

\* '%s' % url: the str itself, and for a response object its printed form
Format(url) ==
    IF "t" \in DOMAIN url /\ url.t = "str" THEN url.v
    ELSE IF "t" \in DOMAIN url /\ url.t = "bool" THEN "True"
    ELSE "<" \o url.kind \o ">"

HttpResponseGone == [kind |-> "HttpResponseGone", status |-> 410]

HttpResponsePermanentRedirect(redirect_to) ==
    [kind |-> "HttpResponsePermanentRedirect", status |-> 301,
     Location |-> redirect_to]

HttpResponseRedirect(redirect_to) ==
    [kind |-> "HttpResponseRedirect", status |-> 302, Location |-> redirect_to]

\* request.META.get('QUERY_STRING', ''): META is None or holds the str
QueryString(META) == IF META = None THEN "" ELSE META.v

\* redirect_view without the '?' before an empty query string
redirect_view_bare_when_empty(c, method, META, r, args, kwargs, acc, hres) ==
    LET response  == view(c.methods, method, r, args, kwargs, acc, hres)
        url       == response.ret
        proper_url ==
            IF c.query_string /\ QueryString(META) # ""
            THEN Format(url) \o "?" \o QueryString(META)
            ELSE Format(url)
    IN  IF Not(url) THEN Returned(HttpResponseGone, response.calls)
        ELSE IF c.permanent
        THEN Returned(HttpResponsePermanentRedirect(proper_url), response.calls)
        ELSE Returned(HttpResponseRedirect(proper_url), response.calls)

\* the wrapper of redirect_view(permanent, query_string, methods)
redirect_view(c, method, META, r, args, kwargs, acc, hres) ==
    LET response  == view(c.methods, method, r, args, kwargs, acc, hres)
        url       == response.ret
        proper_url ==
            IF c.query_string THEN Format(url) \o "?" \o QueryString(META)
            ELSE Format(url)
    IN  IF Not(url) THEN Returned(HttpResponseGone, response.calls)
        ELSE IF c.permanent
        THEN Returned(HttpResponsePermanentRedirect(proper_url), response.calls)
        ELSE Returned(HttpResponseRedirect(proper_url), response.calls)

\* what a call of the wrapper of redirect_view can do.  When the gate
\* answered in place of the handler, url is a response object: with
\* query_string it is formatted into the URL, and without it the redirect
\* class is handed the object itself, which django either prints
\* (force_text) or fails to parse (urlparse), depending on its version
RedirectOutcomes(c, method, META, r, args, kwargs, acc, hres) ==
    LET response == view(c.methods, method, r, args, kwargs, acc, hres)
    IN  {redirect_view(c, method, META, r, args, kwargs, acc, hres)}
        \cup
        IF response.calls = <<>> /\ ~c.query_string
        THEN {Raised("AttributeError", "", <<>>)}
        ELSE {}

(***************************************************************************)
(* django.core.paginator.Paginator, as view_accessories/list.py uses it    *)
(***************************************************************************)
\* the call of Paginator without its orphans argument
Paginator_no_orphans(object_list, per_page, orphans, allow_empty_first_page) ==
    [object_list |-> object_list, per_page |-> per_page, orphans |-> 0,
     allow_empty_first_page |-> allow_empty_first_page]

\* the call of Paginator without its allow_empty_first_page argument
Paginator_allow_empty_default(object_list, per_page, orphans, allow_empty_first_page) ==
    [object_list |-> object_list, per_page |-> per_page, orphans |-> orphans,
     allow_empty_first_page |-> TRUE]

\* Paginator(queryset, per_page, orphans=..., allow_empty_first_page=...)
Paginator(object_list, per_page, orphans, allow_empty_first_page) ==
    [object_list |-> object_list, per_page |-> per_page, orphans |-> orphans,
     allow_empty_first_page |-> allow_empty_first_page]

\* Paginator.count
Count(paginator) == Len(paginator.object_list)

\* int(ceil(hits / float(per_page))), per_page # 0
CeilDiv(hits, per_page) ==
    IF per_page > 0 THEN (hits + per_page - 1) \div per_page
    ELSE 0 - (hits \div (0 - per_page))

\* Paginator.num_pages
num_pages(paginator) ==
    IF Count(paginator) = 0 /\ ~paginator.allow_empty_first_page
    THEN [raised |-> NoExc, v |-> 0]
    ELSE IF paginator.per_page = 0
    THEN [raised |-> "ZeroDivisionError", v |-> 0]
    ELSE [raised |-> NoExc,
          v |-> CeilDiv(Max(1, Count(paginator) - paginator.orphans),
                        paginator.per_page)]

\* Paginator.validate_number(number), number an int
validate_number(paginator, number) ==
    IF number < 1 THEN "EmptyPage"
    ELSE IF num_pages(paginator).raised # NoExc THEN num_pages(paginator).raised
    ELSE IF number > num_pages(paginator).v
            /\ ~(number = 1 /\ paginator.allow_empty_first_page)
    THEN "EmptyPage"
    ELSE NoExc

\* the first row of page `number`, counted from 0
Bottom(paginator, number) == (number - 1) * paginator.per_page

\* Paginator.page: the orphans of the last page are added to this one
Top(paginator, number) ==
    IF Bottom(paginator, number) + paginator.per_page + paginator.orphans
           >= Count(paginator)
    THEN Count(paginator)
    ELSE Bottom(paginator, number) + paginator.per_page

\* Paginator.page(number): a QuerySet refuses a slice with a negative bound
page(paginator, number) ==
    IF validate_number(paginator, number) # NoExc
    THEN [raised |-> validate_number(paginator, number), page |-> None]
    ELSE IF Bottom(paginator, number) < 0 \/ Top(paginator, number) < 0
    THEN [raised |-> "AssertionError", page |-> None]
    ELSE [raised |-> NoExc,
          page |-> [number |-> number,
                    object_list |->
                        SubSeq(paginator.object_list,
                               Bottom(paginator, number) + 1,
                               Min(Top(paginator, number), Count(paginator)))]]

\* Page.has_other_pages(): has_previous() or has_next()
has_other_pages(paginator, number) ==
    number > 1 \/ number < num_pages(paginator).v

(***************************************************************************)
(* view_accessories/list.py                                                *)
(***************************************************************************)
LAST == <<"l", "a", "s", "t">>

\* per_page used directly only when it is an int, a str always taken as the
\* name of a query parameter
EffectivePerPage_isinstance(GET, per_page) ==
    IF per_page.t = "int" THEN int(per_page)
    ELSE IF ~QueryHas(GET, per_page.v) THEN [raised |-> "KeyError", v |-> 0]
    ELSE int(PyStr(QueryGet(GET, per_page.v)))

\* the per_page of the call: int(per_page), else int(request.GET[per_page])
EffectivePerPage(GET, per_page) ==
    IF int(per_page).raised = NoExc THEN int(per_page)
    ELSE IF ~QueryHas(GET, per_page.v) THEN [raised |-> "KeyError", v |-> 0]
    ELSE int(PyStr(QueryGet(GET, per_page.v)))

\* request.GET.get(page_kwarg, 0)
RequestedPage_default0(GET, page_kwarg) ==
    IF QueryHas(GET, page_kwarg) THEN PyStr(QueryGet(GET, page_kwarg))
    ELSE PyInt(0)

\* request.GET.get(page_kwarg, 1)
RequestedPage(GET, page_kwarg) ==
    IF QueryHas(GET, page_kwarg) THEN PyStr(QueryGet(GET, page_kwarg))
    ELSE PyInt(1)

\* 'last' resolved to the first page
PageNumber_last_is_first(paginator, pg) ==
    IF int(pg).raised = NoExc THEN int(pg)
    ELSE IF pg = PyStr(LAST) THEN [raised |-> NoExc, v |-> 1]
    ELSE [raised |-> "Http404", v |-> 0]

\* page_number: int(page), or paginator.num_pages for 'last'
PageNumber(paginator, pg) ==
    IF int(pg).raised = NoExc THEN int(pg)
    ELSE IF pg = PyStr(LAST) THEN num_pages(paginator)
    ELSE [raised |-> "Http404", v |-> 0]

\* the dict stored under 'pagination'
Pagination(paginator, number) ==
    [paginator       |-> paginator,
     page            |-> page(paginator, number).page,
     objects         |-> page(paginator, number).page.object_list,
     has_other_pages |-> has_other_pages(paginator, number)]

\* paginate_queryset(request, queryset, page_kwarg, per_page, orphans,
\* allow_empty_first_page): its outcome and the request's accessories after it
paginate_queryset(GET, acc, queryset, page_kwarg, per_page, orphans, allow_empty_first_page) ==
    LET size      == EffectivePerPage(GET, per_page)
        paginator == Paginator(queryset, size.v, orphans, allow_empty_first_page)
        number    == PageNumber(paginator, RequestedPage(GET, page_kwarg))
        got       == page(paginator, number.v)
    IN  IF size.raised # NoExc
        THEN [out |-> Raised(size.raised, "", <<>>), acc |-> acc]
        ELSE IF number.raised = "Http404"
        THEN [out |-> Raised("Http404", "Page is not 'last'", <<>>), acc |-> acc]
        ELSE IF number.raised # NoExc
        THEN [out |-> Raised(number.raised, "", <<>>), acc |-> acc]
        ELSE IF got.raised = "EmptyPage"
        THEN [out |-> Raised("Http404", "Invalid page", <<>>), acc |-> acc]
        ELSE IF got.raised # NoExc
        THEN [out |-> Raised(got.raised, "", <<>>), acc |-> acc]
        ELSE [out |-> Returned(None, <<>>),
              acc |-> accessorize(acc,
                         [pagination |-> Pagination(paginator, number.v)])]

\* test_app.models.Widget
Widget == [t |-> "model", app_label |-> "test_app", model_name |-> "widget"]

\* a QuerySet of Widget built before decoration: Widget.objects.<how>
QuerySet(how) == [t |-> "queryset", how |-> how, model |-> Widget]

RECURSIVE Reverse(_)
Reverse(s) == IF s = <<>> THEN <<>> ELSE Reverse(Tail(s)) \o <<s[1]>>

\* the rows a QuerySet holds when it is evaluated
Evaluate(queryset, rows) ==
    CASE queryset.how = "all" -> rows
      [] queryset.how = "order_by_desc" -> Reverse(rows)

\* _get_qs_or_404 without the check for an empty collection
get_qs_or_404_serve_empty(model, queryset, allow_empty, rows) ==
    LET chosen == IF model # None THEN "model"
                  ELSE IF queryset # None /\ Evaluate(queryset, rows) # <<>>
                  THEN "queryset"
                  ELSE "neither"
        qs     == IF chosen = "model" THEN rows ELSE Evaluate(queryset, rows)
    IN  IF chosen = "neither"
        THEN [raised |-> "ImproperlyConfigured",
              msg |-> "Must define 'queryset' or 'model'", qs |-> <<>>]
        ELSE [raised |-> NoExc, msg |-> "", qs |-> qs]

\* _get_qs_or_404(model, queryset, allow_empty): a QuerySet is true when it
\* holds a row
get_qs_or_404(model, queryset, allow_empty, rows) ==
    LET chosen == IF model # None THEN "model"
                  ELSE IF queryset # None /\ Evaluate(queryset, rows) # <<>>
                  THEN "queryset"
                  ELSE "neither"
        qs     == IF chosen = "model" THEN rows ELSE Evaluate(queryset, rows)
    IN  IF chosen = "neither"
        THEN [raised |-> "ImproperlyConfigured",
              msg |-> "Must define 'queryset' or 'model'", qs |-> <<>>]
        ELSE IF ~(allow_empty \/ qs # <<>>)
        THEN [raised |-> "Http404", msg |-> "Empty list", qs |-> <<>>]
        ELSE [raised |-> NoExc, msg |-> "", qs |-> qs]

\* list_view(...)(func) and template_list_view(...)(func): decorate() wraps
\* func and looks at none of the decorator's arguments
decorate(c) == Returned([kind |-> "wrapper", decorator |-> c.decorator], <<>>)

\* view(methods)(func)(request, qs, *args, **kwargs) of list_view: methods is
\* passed as view's func, so a non-empty list is what gets decorated and the
\* call on it fails, and None or an empty list leaves the default gate
view_positional(methods, method, r, args, kwargs, acc, hres) ==
    IF methods.t = "list" /\ Len(methods.v) > 0
    THEN Raised("AttributeError", "", <<>>)
    ELSE view(None, method, r, args, kwargs, acc, hres)

\* the wrapper of list_view: its outcome and the request's accessories
list_view(c, rows, method, GET, r, args, kwargs, acc, hres) ==
    LET got  == get_qs_or_404(c.model, c.queryset, c.allow_empty, rows)
        pag  == paginate_queryset(GET, acc, got.qs, c.page_kwarg, c.page_size,
                                  c.paginate_orphans, c.allow_empty)
        acc1 == IF c.paginate THEN pag.acc ELSE acc
    IN  IF got.raised # NoExc
        THEN [out |-> Raised(got.raised, got.msg, <<>>), acc |-> acc]
        ELSE IF c.paginate /\ pag.out.raised # NoExc
        THEN [out |-> pag.out, acc |-> acc1]
        ELSE [out |-> view_positional(c.methods, method, r, <<got.qs>> \o args,
                                      kwargs, acc1, hres),
              acc |-> acc1]

\* the wrapper of template_list_view
template_list_view(c, rows, method, GET, r, args, kwargs, acc, hres) ==
    LET got  == get_qs_or_404(c.model, c.queryset, c.allow_empty, rows)
        pag  == paginate_queryset(GET, acc, got.qs, c.page_kwarg, c.page_size,
                                  c.paginate_orphans, c.allow_empty)
        acc1 == IF c.paginate THEN pag.acc ELSE acc
        my_template_name ==
            IF c.template_name # None /\ c.template_name.v # ""
            THEN c.template_name.v
            ELSE Widget.app_label \o "/" \o Widget.model_name
                    \o c.template_name_suffix \o ".html"
    IN  IF got.raised # NoExc
        THEN [out |-> Raised(got.raised, got.msg, <<>>), acc |-> acc]
        ELSE IF c.paginate /\ pag.out.raised # NoExc
        THEN [out |-> pag.out, acc |-> acc1]
        ELSE [out |-> template_view(PyStr(my_template_name), c.methods, method, r,
                                    <<got.qs>> \o args, kwargs, acc1, hres),
              acc |-> acc1]

(***************************************************************************)
(* view_accessories/detail.py                                              *)
(***************************************************************************)
\* kwargs after kwargs.pop(key)
DictPop(d, key) == [k \in (DOMAIN d) \ {key} |-> d[k]]

\* django.shortcuts.get_object_or_404(model, **{field: lookup}) on the stored
\* rows of the model: the one row matching, Http404 when none matches, and
\* MultipleObjectsReturned of model.objects.get() when several do
get_object_or_404(model, field, lookup, rows) ==
    LET matches == {w \in rows : w[field] = lookup}
    IN  IF matches = {}
        THEN [raised |-> "Http404", msg |-> "No Widget matches the given query.",
              obj |-> None]
        ELSE IF Cardinality(matches) > 1
        THEN [raised |-> "MultipleObjectsReturned", msg |-> "", obj |-> None]
        ELSE [raised |-> NoExc, msg |-> "", obj |-> CHOOSE w \in matches : TRUE]

\* detail_view reading the lookup with kwargs[kwarg] instead of popping it
detail_view_no_pop(c, rows, method, r, args, kwargs, acc, hres) ==
    IF c.kwarg \notin DOMAIN kwargs THEN Raised("KeyError", "", <<>>)
    ELSE LET lookup == kwargs[c.kwarg]
             got    == get_object_or_404(c.model, c.field, lookup, rows)
             kw     == DictUpdate(kwargs, c.model.model_name :> got.obj)
         IN  IF got.raised # NoExc THEN Raised(got.raised, got.msg, <<>>)
             ELSE view(c.methods, method, r, args, kw, acc, hres)

\* the wrapper of detail_view(model, field, kwarg, methods)
detail_view(c, rows, method, r, args, kwargs, acc, hres) ==
    IF c.kwarg \notin DOMAIN kwargs THEN Raised("KeyError", "", <<>>)
    ELSE LET lookup == kwargs[c.kwarg]
             got    == get_object_or_404(c.model, c.field, lookup, rows)
             kw     == DictUpdate(DictPop(kwargs, c.kwarg),
                                  c.model.model_name :> got.obj)
         IN  IF got.raised # NoExc THEN Raised(got.raised, got.msg, <<>>)
             ELSE view(c.methods, method, r, args, kw, acc, hres)

\* the wrapper of template_detail_view(model, field, kwarg, template_name,
\* content_type, template_name_suffix, methods)
template_detail_view(c, rows, method, r, args, kwargs, acc, hres) ==
    IF c.kwarg \notin DOMAIN kwargs THEN Raised("KeyError", "", <<>>)
    ELSE LET lookup == kwargs[c.kwarg]
             got    == get_object_or_404(c.model, c.field, lookup, rows)
             kw     == DictUpdate(DictPop(kwargs, c.kwarg),
                                  c.model.model_name :> got.obj)
             my_template_name ==
                 IF c.template_name # None /\ c.template_name.v # ""
                 THEN c.template_name.v
                 ELSE c.model.app_label \o "/" \o c.model.model_name
                         \o c.template_name_suffix \o ".html"
         IN  IF got.raised # NoExc THEN Raised(got.raised, got.msg, <<>>)
             ELSE template_view(PyStr(my_template_name), c.methods, method, r,
                                args, kw, acc, hres)

(***************************************************************************)
(* django.forms, as view_accessories/edit.py and form.py use it            *)
(***************************************************************************)
\* a dict where None can occur too
PyDict(d) == [t |-> "dict", v |-> d]

\* a stored Widget, and one not saved yet (pk 0 stands for pk None)
WidgetRow(pk, text) == [pk |-> pk, text |-> text]

Unsaved == WidgetRow(0, "")

\* a forms.Form subclass with required fields, like FormView's TestForm
TestForm ==
    [t |-> "formclass", name |-> "TestForm", required |-> {"name", "age"},
     has_save |-> FALSE]

\* model_forms.modelform_factory(model, fields=fields): the ModelForm of
\* Widget, whose one editable field is text
modelform_factory(model, fields) ==
    [t |-> "formclass", name |-> "WidgetForm", required |-> {"text"},
     has_save |-> TRUE]

\* form_cls(data, instance=instance): data is None for form_cls()
Form(cls, data, instance) ==
    [t |-> "form", cls |-> cls, is_bound |-> data # None, data |-> data,
     instance |-> instance]

\* form.is_valid(): a bound form whose required fields all came filled in
is_valid(form) ==
    /\ form.is_bound
    /\ \A f \in form.cls.required :
          f \in DOMAIN form.data.v /\ form.data.v[f] # ""

\* form.save() of a valid ModelForm: INSERT for an unsaved instance, UPDATE
\* of the instance's row otherwise; the form and the table afterwards
save(form, table) ==
    LET pk  == IF form.instance.pk = 0 THEN table.next_pk ELSE form.instance.pk
        row == WidgetRow(pk, form.data.v.text)
    IN  [form |-> [form EXCEPT !.instance = row],
         db   |-> [rows    |-> {w \in table.rows : w.pk # pk} \cup {row},
                   next_pk |-> IF form.instance.pk = 0 THEN table.next_pk + 1
                               ELSE table.next_pk]]

\* django.shortcuts.redirect(to)
redirect(to) == [kind |-> "HttpResponseRedirect", status |-> 302, Location |-> to]

\* the truth value of a success_url argument: None or a str
Truthy(x) == x # None /\ x.v # ""

(***************************************************************************)
(* view_accessories/form.py                                                *)
(***************************************************************************)
\* the wrapper of form.form_view(form, methods)
form_form_view(c, method, POST, r, args, kwargs, acc, hres) ==
    LET my_form == IF method = "POST" THEN Form(c.form, PyDict(POST), None)
                   ELSE Form(c.form, None, None)
    IN  view(c.methods, method, r, args, DictUpdate(kwargs, [form |-> my_form]),
             acc, hres)

(***************************************************************************)
(* view_accessories/edit.py                                                *)
(***************************************************************************)
\* a form instantiated with the (empty) submitted data whatever the method
NewForm_always_bound(form, data) ==
    Form(form, IF data = None THEN PyDict(EmptyDict) ELSE data,
         IF form.has_save THEN Unsaved ELSE None)

\* the form instantiated by edit.form_view: a ModelForm class makes itself
\* an unsaved instance of its model
NewForm(form, data) ==
    Form(form, data, IF form.has_save THEN Unsaved ELSE None)

\* edit.form_view calling the handler before it saves the form
form_view_handler_first(c, table, method, POST, r, args, kwargs, acc, hres) ==
    LET my_form == IF method = "POST" THEN NewForm(c.form, PyDict(POST))
                   ELSE NewForm(c.form, None)
        valid   == is_valid(my_form)
        response == view(c.methods, method, r, args,
                         DictUpdate(kwargs, [form |-> my_form]), acc, hres)
        saved   == IF method = "POST" /\ valid /\ c.form.has_save
                   THEN save(my_form, table)
                   ELSE [form |-> my_form, db |-> table]
    IN  IF "form" \in DOMAIN kwargs
        THEN [out |-> Raised("AssertionError", "", <<>>), db |-> table]
        ELSE IF method = "POST" /\ Truthy(c.success_url) /\ valid
        THEN [out |-> Returned(redirect(c.success_url.v), response.calls),
              db  |-> saved.db]
        ELSE [out |-> response, db |-> saved.db]

\* edit.form_view redirecting after every POST, valid or not
form_view_redirect_any_post(c, table, method, POST, r, args, kwargs, acc, hres) ==
    LET my_form == IF method = "POST" THEN NewForm(c.form, PyDict(POST))
                   ELSE NewForm(c.form, None)
        valid   == is_valid(my_form)
        saved   == IF method = "POST" /\ valid /\ c.form.has_save
                   THEN save(my_form, table)
                   ELSE [form |-> my_form, db |-> table]
        response == view(c.methods, method, r, args,
                         DictUpdate(kwargs, [form |-> saved.form]), acc, hres)
    IN  IF "form" \in DOMAIN kwargs
        THEN [out |-> Raised("AssertionError", "", <<>>), db |-> table]
        ELSE IF method = "POST" /\ Truthy(c.success_url)
        THEN [out |-> Returned(redirect(c.success_url.v), response.calls),
              db  |-> saved.db]
        ELSE [out |-> response, db |-> saved.db]

\* the wrapper of edit.form_view(form, success_url, methods): its outcome and
\* the Widget table afterwards
form_view(c, table, method, POST, r, args, kwargs, acc, hres) ==
    LET my_form == IF method = "POST" THEN NewForm(c.form, PyDict(POST))
                   ELSE NewForm(c.form, None)
        valid   == is_valid(my_form)
        saved   == IF method = "POST" /\ valid /\ c.form.has_save
                   THEN save(my_form, table)
                   ELSE [form |-> my_form, db |-> table]
        response == view(c.methods, method, r, args,
                         DictUpdate(kwargs, [form |-> saved.form]), acc, hres)
    IN  IF "form" \in DOMAIN kwargs
        THEN [out |-> Raised("AssertionError", "", <<>>), db |-> table]
        ELSE IF method = "POST" /\ Truthy(c.success_url) /\ valid
        THEN [out |-> Returned(redirect(c.success_url.v), response.calls),
              db  |-> saved.db]
        ELSE [out |-> response, db |-> saved.db]

\* the wrapper of create_view(model, fields, success_url, methods)
create_view(c, table, method, POST, r, args, kwargs, acc, hres) ==
    form_view([form |-> modelform_factory(c.model, c.fields),
               success_url |-> c.success_url, methods |-> c.methods],
              table, method, POST, r, args, kwargs, acc, hres)

\* update_view handing on the entity as it was resolved, not re-read from
\* the saved form
update_view_stale_obj(c, table, method, POST, r, args, kwargs, acc, hres) ==
    IF c.kwarg \notin DOMAIN kwargs
    THEN [out |-> Raised("KeyError", "", <<>>), db |-> table]
    ELSE LET lookup   == kwargs[c.kwarg]
             got      == get_object_or_404(c.model, c.field, lookup, table.rows)
             form_cls == modelform_factory(c.model, c.fields)
             form     == IF method = "POST"
                         THEN Form(form_cls, PyDict(POST), got.obj)
                         ELSE Form(form_cls, None, got.obj)
             saved    == IF method = "POST" /\ is_valid(form)
                         THEN save(form, table)
                         ELSE [form |-> form, db |-> table]
             kw       == DictUpdate(DictUpdate(DictPop(kwargs, c.kwarg),
                                               [form |-> saved.form]),
                                    c.model.model_name :> got.obj)
             response == view(c.methods, method, r, args, kw, acc, hres)
         IN  IF got.raised # NoExc
             THEN [out |-> Raised(got.raised, got.msg, <<>>), db |-> table]
             ELSE IF method = "POST" /\ Truthy(c.success_url)
                       /\ is_valid(saved.form)
             THEN [out |-> Returned(redirect(c.success_url.v), response.calls),
                   db  |-> saved.db]
             ELSE [out |-> response, db |-> saved.db]

\* the wrapper of update_view(model, field, kwarg, fields, success_url,
\* methods): its outcome and the Widget table afterwards
update_view(c, table, method, POST, r, args, kwargs, acc, hres) ==
    IF c.kwarg \notin DOMAIN kwargs
    THEN [out |-> Raised("KeyError", "", <<>>), db |-> table]
    ELSE LET lookup   == kwargs[c.kwarg]
             got      == get_object_or_404(c.model, c.field, lookup, table.rows)
             form_cls == modelform_factory(c.model, c.fields)
             form     == IF method = "POST"
                         THEN Form(form_cls, PyDict(POST), got.obj)
                         ELSE Form(form_cls, None, got.obj)
             saved    == IF method = "POST" /\ is_valid(form)
                         THEN save(form, table)
                         ELSE [form |-> form, db |-> table]
             obj      == saved.form.instance
             kw       == DictUpdate(DictUpdate(DictPop(kwargs, c.kwarg),
                                               [form |-> saved.form]),
                                    c.model.model_name :> obj)
             response == view(c.methods, method, r, args, kw, acc, hres)
         IN  IF got.raised # NoExc
             THEN [out |-> Raised(got.raised, got.msg, <<>>), db |-> table]
             ELSE IF method = "POST" /\ Truthy(c.success_url)
                       /\ is_valid(saved.form)
             THEN [out |-> Returned(redirect(c.success_url.v), response.calls),
                   db  |-> saved.db]
             ELSE [out |-> response, db |-> saved.db]

\* a delete() that leaves the row stored
delete_nothing(obj, table) == table

\* obj.delete()
delete(obj, table) == [table EXCEPT !.rows = {w \in @ : w.pk # obj.pk}]

\* the wrapper of delete_view(model, field, kwarg, success_url, methods): its
\* outcome and the Widget table afterwards
delete_view(c, table, method, r, args, kwargs, acc, hres) ==
    IF c.kwarg \notin DOMAIN kwargs
    THEN [out |-> Raised("KeyError", "", <<>>), db |-> table]
    ELSE LET lookup   == kwargs[c.kwarg]
             got      == get_object_or_404(c.model, c.field, lookup, table.rows)
             kw       == DictUpdate(DictPop(kwargs, c.kwarg),
                                    c.model.model_name :> got.obj)
             response == view(c.methods, method, r, args, kw, acc, hres)
         IN  IF got.raised # NoExc
             THEN [out |-> Raised(got.raised, got.msg, <<>>), db |-> table]
             ELSE IF method = "POST" /\ Truthy(c.success_url)
             THEN [out |-> Returned(redirect(c.success_url.v), response.calls),
                   db  |-> delete(got.obj, table)]
             ELSE IF method = "POST"
             THEN [out |-> response, db |-> delete(got.obj, table)]
             ELSE [out |-> response, db |-> table]

(***************************************************************************)
(* Inputs                                                                  *)
(***************************************************************************)
\* the verbs a request arrives with
RequestMethods == {"GET", "POST", "DELETE", "OPTIONS", "TRACE"}

\* the allow-lists a decorator is configured with
AllowLists ==
    {None, MethodList(<<>>), MethodList(<<"GET">>), MethodList(<<"POST">>),
     MethodList(<<"GET", "POST">>), MethodList(<<"POST", "GET">>),
     MethodList(<<"OPTIONS">>), MethodList(<<"GET", "OPTIONS">>)}

\* what the decorated function returns
HandlerResults ==
    {None,
     [kind |-> "HttpResponse", status |-> 200, content |-> "ok"],
     [kind |-> "dict", v |-> "context"]}

\* positional and keyword arguments the URL resolver passes on
ArgLists == {<<>>, <<69>>}

KwargDicts == {EmptyDict, [id |-> 1]}

Widgets(n) == [i \in 1..n |-> i]

\* the numbers of stored rows a behaviour starts with
WidgetCounts == (0..MaxWidgets) \cup {ScenarioWidgets}

PAGE == <<"p", "a", "g", "e">>

PAGE_SIZE == <<"p", "a", "g", "e", "_", "s", "i", "z", "e">>

\* values of the page parameter of a query string
PageTokens ==
    {<<"1">>, <<"2">>, <<"3">>, <<"5">>, <<"0">>, <<"-", "1">>, LAST, <<"x">>,
     <<"1", "0", "0">>, <<>>}

\* values of the page_size parameter of a query string
SizeTokens == {<<"1", "0">>, <<"2">>, <<"x">>}

\* the query strings of the requests
QueryDicts ==
    {pg \cup sz : pg \in {{}} \cup {{<<PAGE, t>>} : t \in PageTokens},
                  sz \in {{}} \cup {{<<PAGE_SIZE, t>>} : t \in SizeTokens}}

\* the page size a call site or decorator is given
PerPageArgs ==
    {PyInt(0 - 1), PyInt(0), PyInt(2), PyInt(5), PyStr(<<"3">>),
     PyStr(PAGE_SIZE)}

OrphanArgs == {0, 1, 3}

(***************************************************************************)
(* The gate on its own: @view(methods=...)                                 *)
(***************************************************************************)
InitView ==
    /\ cfg \in {[decorator |-> "view", methods |-> m] : m \in AllowLists}
    /\ db = Widgets(0)
    /\ accessories = [r \in Requests |-> NoAccessories]
    /\ last = [op |-> "init"]

ViewCall(r, method, args, kwargs, hres) ==
    /\ cfg.decorator = "view"
    /\ last' = [op |-> "view", request |-> r, method |-> method,
                args |-> args, kwargs |-> kwargs, hres |-> hres,
                out |-> view(cfg.methods, method, r, args, kwargs,
                             accessories[r], hres)]
    /\ UNCHANGED <<cfg, db, accessories>>

NextView ==
    \E r \in Requests, method \in RequestMethods, args \in ArgLists,
       kwargs \in KwargDicts, hres \in HandlerResults :
        ViewCall(r, method, args, kwargs, hres)

SpecView == InitView /\ [][NextView]_vars

(***************************************************************************)
(* paginate_queryset on its own, called on Widget.objects.all()            *)
(***************************************************************************)
InitPaginate ==
    /\ cfg \in {[decorator |-> "paginate_queryset", page_kwarg |-> PAGE,
                  per_page |-> p, orphans |-> o, allow_empty_first_page |-> a] :
                    p \in PerPageArgs, o \in OrphanArgs, a \in BOOLEAN}
    /\ db \in {Widgets(n) : n \in WidgetCounts}
    /\ accessories = [r \in Requests |-> NoAccessories]
    /\ last = [op |-> "init"]

PaginateCall(r, GET) ==
    /\ cfg.decorator = "paginate_queryset"
    /\ LET res == paginate_queryset(GET, accessories[r], db, cfg.page_kwarg,
                                     cfg.per_page, cfg.orphans,
                                     cfg.allow_empty_first_page)
       IN  /\ last' = [op |-> "paginate_queryset", request |-> r, GET |-> GET,
                       before |-> accessories[r], out |-> res.out]
           /\ accessories' = [accessories EXCEPT ![r] = res.acc]
    /\ UNCHANGED <<cfg, db>>

NextPaginate == \E r \in Requests, GET \in QueryDicts : PaginateCall(r, GET)

SpecPaginate == InitPaginate /\ [][NextPaginate]_vars

(***************************************************************************)
(* A function decorated with list_view or template_list_view               *)
(***************************************************************************)
\* the arguments of the decorator; without paginate the paging arguments
\* keep their defaults
ListConfigs ==
    {[decorator |-> d, model |-> m, queryset |-> q, paginate |-> pg[1],
      page_size |-> pg[2], paginate_orphans |-> 0, page_kwarg |-> PAGE,
      allow_empty |-> a, methods |-> ms, template_name |-> None,
      template_name_suffix |-> "_list"] :
        d \in {"list_view", "template_list_view"},
        m \in {None, Widget},
        q \in {None, QuerySet("order_by_desc")},
        pg \in {<<FALSE, PyStr(PAGE_SIZE)>>, <<TRUE, PyStr(PAGE_SIZE)>>,
                <<TRUE, PyInt(2)>>},
        a \in BOOLEAN,
        ms \in {None, MethodList(<<"GET">>)}}

ListRequestMethods == {"GET", "POST", "OPTIONS"}

ListQueryDicts ==
    {{}, {<<PAGE, <<"2">> >>}, {<<PAGE, <<"x">> >>}, {<<PAGE, LAST>>},
     {<<PAGE_SIZE, <<"2">> >>}}

ListHandlerResults == {None, [kind |-> "dict", v |-> "context"]}

InitList ==
    /\ cfg \in ListConfigs
    /\ db \in {Widgets(n) : n \in 0..MaxListWidgets}
    /\ accessories = [r \in Requests |-> NoAccessories]
    /\ last = [op |-> "decorate", out |-> decorate(cfg)]

ListViewCall(r, method, GET, hres) ==
    /\ cfg.decorator = "list_view"
    /\ LET res == list_view(cfg, db, method, GET, r, <<>>, EmptyDict,
                             accessories[r], hres)
       IN  /\ last' = [op |-> "list_view", request |-> r, method |-> method,
                       GET |-> GET, hres |-> hres, before |-> accessories[r],
                       out |-> res.out]
           /\ accessories' = [accessories EXCEPT ![r] = res.acc]
    /\ UNCHANGED <<cfg, db>>

TemplateListViewCall(r, method, GET, hres) ==
    /\ cfg.decorator = "template_list_view"
    /\ LET res == template_list_view(cfg, db, method, GET, r, <<>>, EmptyDict,
                                      accessories[r], hres)
       IN  /\ last' = [op |-> "template_list_view", request |-> r,
                       method |-> method, GET |-> GET, hres |-> hres,
                       before |-> accessories[r], out |-> res.out]
           /\ accessories' = [accessories EXCEPT ![r] = res.acc]
    /\ UNCHANGED <<cfg, db>>

NextList ==
    \E r \in Requests, method \in ListRequestMethods, GET \in ListQueryDicts,
       hres \in ListHandlerResults :
        \/ ListViewCall(r, method, GET, hres)
        \/ TemplateListViewCall(r, method, GET, hres)

SpecList == InitList /\ [][NextList]_vars

(***************************************************************************)
(* A function decorated with detail_view or template_detail_view.  Here db *)
(* is the Widget table: its rows, each with a pk and a text, and the pk    *)
(* the next INSERT gets.                                                   *)
(***************************************************************************)
\* the values of Widget.text
Texts == {"a", "b"}

MaxPk(rows) == IF rows = {} THEN 0 ELSE CHOOSE p \in {w.pk : w \in rows} :
                                          \A w \in rows : w.pk <= p

\* the Widget tables a behaviour starts with
EntityStores ==
    {[rows |-> rows, next_pk |-> MaxPk(rows) + 1] :
        rows \in UNION {{{WidgetRow(p, f[p]) : p \in pks} : f \in [pks -> Texts]} :
                          pks \in SUBSET (1..MaxEntities)}}

\* values the URL resolver captures for the lookup
Lookups(field) ==
    IF field = "pk" THEN 1..(MaxEntities + 1) ELSE Texts \cup {"z"}

\* keyword arguments the URL resolver passes to a view looking up by field
LookupKwargs(c) ==
    {(c.kwarg :> v) @@ extra :
        v \in Lookups(c.field), extra \in {EmptyDict, [slug |-> "s"]}}

DetailConfigs ==
    {[decorator |-> d, model |-> Widget, field |-> fk[1], kwarg |-> fk[2],
      methods |-> ms, template_name |-> None,
      template_name_suffix |-> "_detail"] :
        d \in {"detail_view", "template_detail_view"},
        fk \in {<<"pk", "id">>, <<"text", "text">>},
        ms \in {None, MethodList(<<"GET">>)}}

DetailRequestMethods == {"GET", "POST", "OPTIONS"}

InitDetail ==
    /\ cfg \in DetailConfigs
    /\ db \in EntityStores
    /\ accessories = [r \in Requests |-> NoAccessories]
    /\ last = [op |-> "init"]

DetailViewCall(r, method, args, kwargs, hres) ==
    /\ cfg.decorator = "detail_view"
    /\ kwargs \in LookupKwargs(cfg)
    /\ last' = [op |-> "detail_view", request |-> r, method |-> method,
                args |-> args, kwargs |-> kwargs, hres |-> hres,
                out |-> detail_view(cfg, db.rows, method, r, args, kwargs,
                                    accessories[r], hres)]
    /\ UNCHANGED <<cfg, db, accessories>>

TemplateDetailViewCall(r, method, args, kwargs, hres) ==
    /\ cfg.decorator = "template_detail_view"
    /\ kwargs \in LookupKwargs(cfg)
    /\ last' = [op |-> "template_detail_view", request |-> r,
                method |-> method, args |-> args, kwargs |-> kwargs,
                hres |-> hres,
                out |-> template_detail_view(cfg, db.rows, method, r, args,
                                             kwargs, accessories[r], hres)]
    /\ UNCHANGED <<cfg, db, accessories>>

NextDetail ==
    \E r \in Requests, method \in DetailRequestMethods, args \in ArgLists,
       kwargs \in LookupKwargs(cfg), hres \in HandlerResults :
        \/ DetailViewCall(r, method, args, kwargs, hres)
        \/ TemplateDetailViewCall(r, method, args, kwargs, hres)

SpecDetail == InitDetail /\ [][NextDetail]_vars

(***************************************************************************)
(* A function decorated with one of the decorators of edit.py or with      *)
(* form.form_view; db is the Widget table as under detail_view, and it     *)
(* changes as the forms are saved and the entities deleted.                *)
(***************************************************************************)
WidgetForm == modelform_factory(Widget, <<"text">>)

SuccessUrls == {None, PyStr("https://www.google.com/")}

EditAllowLists == {None, MethodList(<<"GET">>)}

EditConfigs ==
    {[decorator |-> "form_view", form |-> f, success_url |-> u, methods |-> ms] :
        f \in {TestForm, WidgetForm}, u \in SuccessUrls, ms \in EditAllowLists}
    \cup
    {[decorator |-> "form.form_view", form |-> TestForm, methods |-> ms] :
        ms \in EditAllowLists}
    \cup
    {[decorator |-> "create_view", model |-> Widget, fields |-> <<"text">>,
      success_url |-> u, methods |-> ms] :
        u \in SuccessUrls, ms \in EditAllowLists}
    \cup
    {[decorator |-> d, model |-> Widget, field |-> fk[1], kwarg |-> fk[2],
      fields |-> None, success_url |-> u, methods |-> ms] :
        d \in {"update_view", "delete_view"},
        fk \in {<<"pk", "id">>, <<"text", "text">>},
        u \in SuccessUrls, ms \in EditAllowLists}

EditRequestMethods == {"GET", "POST", "OPTIONS"}

\* request.POST: what a POST request submits to a form of the class, and
\* nothing for the other methods
PostDicts(cls, method) ==
    IF method # "POST" THEN {EmptyDict}
    ELSE IF cls = TestForm
    THEN {EmptyDict, [name |-> "Sally"], [name |-> "Sally", age |-> "5"]}
    ELSE {EmptyDict, [text |-> ""], [text |-> "a"], [text |-> "b"]}

\* keyword arguments the URL resolver passes to update_view and delete_view
EditKwargs(c) == {c.kwarg :> v : v \in Lookups(c.field)}

\* keyword arguments the URL resolver passes to a form view
FormKwargs == {EmptyDict, [id |-> 1], [form |-> "f"]}

EditHandlerResults ==
    {None, [kind |-> "HttpResponse", status |-> 200, content |-> "ok"]}

InitEdit ==
    /\ cfg \in EditConfigs
    /\ db \in EntityStores
    /\ accessories = [r \in Requests |-> NoAccessories]
    /\ last = [op |-> "init"]

\* the call as `last` records it, res being its outcome and table
EditCall(op, r, method, POST, kwargs, hres, res) ==
    /\ res.db.next_pk <= MaxEntities + 1
    /\ last' = [op |-> op, request |-> r, method |-> method, POST |-> POST,
                kwargs |-> kwargs, hres |-> hres, before |-> db,
                out |-> res.out]
    /\ db' = res.db
    /\ UNCHANGED <<cfg, accessories>>

FormViewCall(r, method, hres) ==
    /\ cfg.decorator = "form_view"
    /\ \E POST \in PostDicts(cfg.form, method), kwargs \in FormKwargs :
          EditCall("form_view", r, method, POST, kwargs, hres,
                   form_view(cfg, db, method, POST, r, <<>>, kwargs,
                             accessories[r], hres))

FormFormViewCall(r, method, hres) ==
    /\ cfg.decorator = "form.form_view"
    /\ \E POST \in PostDicts(cfg.form, method), kwargs \in FormKwargs :
          EditCall("form.form_view", r, method, POST, kwargs, hres,
                   [out |-> form_form_view(cfg, method, POST, r, <<>>, kwargs,
                                           accessories[r], hres),
                    db  |-> db])

CreateViewCall(r, method, hres) ==
    /\ cfg.decorator = "create_view"
    /\ \E POST \in PostDicts(WidgetForm, method), kwargs \in FormKwargs :
          EditCall("create_view", r, method, POST, kwargs, hres,
                   create_view(cfg, db, method, POST, r, <<>>, kwargs,
                               accessories[r], hres))

UpdateViewCall(r, method, hres) ==
    /\ cfg.decorator = "update_view"
    /\ \E POST \in PostDicts(WidgetForm, method), kwargs \in EditKwargs(cfg) :
          EditCall("update_view", r, method, POST, kwargs, hres,
                   update_view(cfg, db, method, POST, r, <<>>, kwargs,
                               accessories[r], hres))

DeleteViewCall(r, method, hres) ==
    /\ cfg.decorator = "delete_view"
    /\ \E kwargs \in EditKwargs(cfg) :
          EditCall("delete_view", r, method, EmptyDict, kwargs, hres,
                   delete_view(cfg, db, method, r, <<>>, kwargs,
                               accessories[r], hres))

NextEdit ==
    \E r \in Requests, method \in EditRequestMethods,
       hres \in EditHandlerResults :
        \/ FormViewCall(r, method, hres)
        \/ FormFormViewCall(r, method, hres)
        \/ CreateViewCall(r, method, hres)
        \/ UpdateViewCall(r, method, hres)
        \/ DeleteViewCall(r, method, hres)

SpecEdit == InitEdit /\ [][NextEdit]_vars

(***************************************************************************)
(* A function decorated with template_view or redirect_view                *)
(***************************************************************************)
GenericConfigs ==
    {[decorator |-> "template_view", template_name |-> t, methods |-> ms] :
        t \in {None, PyStr("test_app/widget_detail.html")}, ms \in AllowLists}
    \cup
    {[decorator |-> "redirect_view", permanent |-> p, query_string |-> q,
      methods |-> ms] :
        p \in BOOLEAN, q \in BOOLEAN, ms \in AllowLists}

\* what a function under redirect_view returns
UrlResults ==
    {None, PyStr(""), PyBool(FALSE), PyStr("http://www.google.com/")}

\* the QUERY_STRING of request.META, None when META has none
QueryStrings == {None, PyStr(""), PyStr("q=test")}

InitGeneric ==
    /\ cfg \in GenericConfigs
    /\ db = Widgets(0)
    /\ accessories = [r \in Requests |-> NoAccessories]
    /\ last = [op |-> "init"]

TemplateViewCall(r, method, args, kwargs) ==
    /\ cfg.decorator = "template_view"
    /\ \E hres \in HandlerResults :
          last' = [op |-> "template_view", request |-> r, method |-> method,
                   args |-> args, kwargs |-> kwargs, hres |-> hres,
                   out |-> template_view(cfg.template_name, cfg.methods, method,
                                         r, args, kwargs, accessories[r], hres)]
    /\ UNCHANGED <<cfg, db, accessories>>

RedirectViewCall(r, method, args, kwargs) ==
    /\ cfg.decorator = "redirect_view"
    /\ \E hres \in UrlResults, META \in QueryStrings :
          \E out \in RedirectOutcomes(cfg, method, META, r, args, kwargs,
                                      accessories[r], hres) :
             last' = [op |-> "redirect_view", request |-> r, method |-> method,
                      args |-> args, kwargs |-> kwargs, hres |-> hres,
                      META |-> META, out |-> out]
    /\ UNCHANGED <<cfg, db, accessories>>

NextGeneric ==
    \E r \in Requests, method \in RequestMethods, args \in ArgLists,
       kwargs \in KwargDicts :
        \/ TemplateViewCall(r, method, args, kwargs)
        \/ RedirectViewCall(r, method, args, kwargs)

SpecGeneric == InitGeneric /\ [][NextGeneric]_vars

(***************************************************************************)
(* The decorators that resolve entities and collections, side by side: a   *)
(* function decorated with a list view, a detail view or an edit view      *)
(***************************************************************************)
ListDecorators == {"list_view", "template_list_view"}

DetailDecorators == {"detail_view", "template_detail_view"}

EditDecorators ==
    {"form_view", "form.form_view", "create_view", "update_view", "delete_view"}

InitBoundary == InitList \/ InitDetail \/ InitEdit

NextBoundary ==
    \/ cfg.decorator \in ListDecorators /\ NextList
    \/ cfg.decorator \in DetailDecorators /\ NextDetail
    \/ cfg.decorator \in EditDecorators /\ NextEdit

SpecBoundary == InitBoundary /\ [][NextBoundary]_vars

(***************************************************************************)
(* Several requests in flight, each with its own accessories: accessorize  *)
(* and paginate_queryset called on them in any order.  last.before is the  *)
(* accessories of every request before the call, last.wrote whether the    *)
(* call stored something, last.kwargs what it stored, and last.written what *)
(* the calls made so far have stored for each request, name by name.       *)
(***************************************************************************)
StoreRequests == {"r1", "r2"}

\* the names and values handed to accessorize
StoreKeys == {"form", "pagination"}

StoreValues == {PyStr("x"), PyStr("y")}

StoreKwargs == UNION {[ks -> StoreValues] : ks \in SUBSET StoreKeys}

StoreQueryDicts == {{}, {<<PAGE, <<"2">> >>}, {<<PAGE, <<"x">> >>}}

\* what has been stored for a request once kwargs is stored too
Written(w, kwargs) ==
    [has |-> TRUE,
     d   |-> [k \in (DOMAIN w.d) \cup (DOMAIN kwargs) |->
                 IF k \in DOMAIN kwargs THEN kwargs[k] ELSE w.d[k]]]

InitStore ==
    /\ cfg \in {[decorator |-> "accessorize", page_kwarg |-> PAGE,
                  per_page |-> PyInt(p), orphans |-> 0,
                  allow_empty_first_page |-> TRUE] : p \in {1, 2}}
    /\ db \in {Widgets(n) : n \in 0..MaxListWidgets}
    /\ accessories = [r \in StoreRequests |-> NoAccessories]
    /\ last = [op |-> "init", request |-> "r1", wrote |-> FALSE,
               kwargs |-> EmptyDict, before |-> accessories,
               written |-> accessories]

AccessorizeCall(r, kwargs) ==
    /\ last' = [op |-> "accessorize", request |-> r, wrote |-> TRUE,
                kwargs |-> kwargs, before |-> accessories,
                written |-> [last.written EXCEPT
                                ![r] = Written(last.written[r], kwargs)]]
    /\ accessories' = [accessories EXCEPT ![r] = accessorize(accessories[r], kwargs)]
    /\ UNCHANGED <<cfg, db>>

StorePaginateCall(r, GET) ==
    LET res    == paginate_queryset(GET, accessories[r], db, cfg.page_kwarg,
                                    cfg.per_page, cfg.orphans,
                                    cfg.allow_empty_first_page)
        wrote  == res.out.raised = NoExc
        kwargs == IF wrote THEN [pagination |-> res.acc.d["pagination"]]
                  ELSE EmptyDict
    IN  /\ last' = [op |-> "paginate_queryset", request |-> r, wrote |-> wrote,
                    kwargs |-> kwargs, before |-> accessories,
                    written |-> IF wrote
                                THEN [last.written EXCEPT
                                         ![r] = Written(last.written[r], kwargs)]
                                ELSE last.written]
        /\ accessories' = [accessories EXCEPT ![r] = res.acc]
        /\ UNCHANGED <<cfg, db>>

NextStore ==
    \/ \E r \in StoreRequests, kwargs \in StoreKwargs : AccessorizeCall(r, kwargs)
    \/ \E r \in StoreRequests, GET \in StoreQueryDicts : StorePaginateCall(r, GET)

SpecStore == InitStore /\ [][NextStore]_vars

(***************************************************************************)
(* Claims about the gate                                                   *)
(***************************************************************************)
\* the allow-list a claim speaks of: the configured list, or the full verb
\* set when the methods argument was omitted
ClaimedAllowList(m) == IF m = None THEN HTTP_METHODS ELSE m.v

\* C1: with a non-empty (or omitted) allow-list M and a request whose method
\* is not OPTIONS, the handler is invoked exactly once with the original
\* arguments and its result returned unchanged if the method is in M, and
\* otherwise the handler is not invoked and a 405 response is returned.
C1_MethodGate ==
    (last.op = "view" /\ last.method # "OPTIONS"
        /\ (cfg.methods = None \/ Len(cfg.methods.v) > 0))
    => IF In(last.method, ClaimedAllowList(cfg.methods))
       THEN /\ last.out.raised = NoExc
            /\ Len(last.out.calls) = 1
            /\ last.out.calls[1].request = last.request
            /\ last.out.calls[1].args = last.args
            /\ last.out.calls[1].kwargs = last.kwargs
            /\ last.out.ret = last.hres
       ELSE /\ last.out.raised = NoExc
            /\ last.out.calls = <<>>
            /\ last.out.ret.status = 405

\* a POST to a GET-only view was answered 405 (ViewTest.test_methods)
C1_Witness ==
    /\ last.op = "view" /\ last.method = "POST"
    /\ cfg.methods = MethodList(<<"GET">>)
    /\ last.out.calls = <<>>
    /\ last.out.ret.status = 405

\* C2: for every allow-list M an OPTIONS request gets a status-200 response
\* whose Allow header is the members of M joined by ", " in configured
\* order and whose Content-Length is 0, without the handler being invoked.
C2_Options ==
    (last.op = "view" /\ last.method = "OPTIONS")
    => /\ last.out.raised = NoExc
       /\ last.out.calls = <<>>
       /\ last.out.ret.status = 200
       /\ last.out.ret.Allow = Join(", ", ClaimedAllowList(cfg.methods))
       /\ last.out.ret.ContentLength = "0"

(***************************************************************************)
(* Claims about paginate_queryset                                          *)
(***************************************************************************)
\* the query-string values that are integers, read off a table
IntTokens ==
    {<<"1">>, <<"2">>, <<"3">>, <<"5">>, <<"0">>, <<"-", "1">>, <<"1", "0">>,
     <<"1", "0", "0">>}

ClaimedInt(t) ==
    CASE t = <<"1">> -> 1 [] t = <<"2">> -> 2 [] t = <<"3">> -> 3
      [] t = <<"5">> -> 5 [] t = <<"0">> -> 0 [] t = <<"-", "1">> -> 0 - 1
      [] t = <<"1", "0">> -> 10 [] t = <<"1", "0", "0">> -> 100

\* the page size a call is to use: the numeric argument, or the integer
\* value of the query parameter the argument names
HasClaimedPerPage(GET) ==
    \/ cfg.per_page.t = "int"
    \/ cfg.per_page.v \in IntTokens
    \/ /\ QueryHas(GET, cfg.per_page.v)
       /\ QueryGet(GET, cfg.per_page.v) \in IntTokens

ClaimedPerPage(GET) ==
    IF cfg.per_page.t = "int" THEN cfg.per_page.v
    ELSE IF cfg.per_page.v \in IntTokens THEN ClaimedInt(cfg.per_page.v)
    ELSE ClaimedInt(QueryGet(GET, cfg.per_page.v))

Paginated == last.op = "paginate_queryset"

PaginatedOk == Paginated /\ last.out.raised = NoExc

\* the dict under 'pagination' of the request of the last call
Stored == accessories[last.request].d["pagination"]

\* ceil(n / p) for p >= 1
CeilOf(n, p) == (n + p - 1) \div p

\* rows first..last of the collection, counted from 1
Rows(first, lst) == [i \in 1..(lst - first + 1) |-> db[first + i - 1]]

\* C3: on success paginate_queryset returns the Page Result and stores the
\* same value under 'pagination': a dict with exactly the keys paginator,
\* page, objects and has_other_pages, objects being the items of the page,
\* page.number in [1, total_pages], has_other_pages iff total_pages > 1.
\* (Stated for page sizes >= 1.)
C3_ReturnsAndStores ==
    (PaginatedOk /\ ClaimedPerPage(last.GET) >= 1)
    => /\ accessories[last.request].has
       /\ "pagination" \in DOMAIN accessories[last.request].d
       /\ last.out.ret = Stored
       /\ DOMAIN Stored = {"paginator", "page", "objects", "has_other_pages"}
       /\ Stored.objects = Stored.page.object_list
       /\ Stored.page.number \in 1..num_pages(Stored.paginator).v
       /\ Stored.has_other_pages = (num_pages(Stored.paginator).v > 1)

\* C4: N >= 1 rows, page size P >= 1, no orphans: there are ceil(N / P)
\* pages, a request for page k of them is served rows (k-1)*P+1 ..
\* min(k*P, N) in order, every page of the paginator is that slice, and a
\* request without a page parameter is served page 1.
C4_PageContents ==
    (/\ Paginated /\ Len(db) >= 1 /\ cfg.orphans = 0
     /\ HasClaimedPerPage(last.GET) /\ ClaimedPerPage(last.GET) >= 1
     /\ QueryHas(last.GET, PAGE) => QueryGet(last.GET, PAGE) \in IntTokens)
    => LET P     == ClaimedPerPage(last.GET)
           N     == Len(db)
           total == CeilOf(N, P)
           k     == IF QueryHas(last.GET, PAGE)
                    THEN ClaimedInt(QueryGet(last.GET, PAGE)) ELSE 1
       IN  k \in 1..total
           => /\ last.out.raised = NoExc
              /\ Stored.page.number = k
              /\ Stored.objects = Rows((k - 1) * P + 1, Min(k * P, N))
              /\ num_pages(Stored.paginator).v = total
              /\ Stored.has_other_pages = (total > 1)
              /\ \A j \in 1..total :
                    page(Stored.paginator, j).page.object_list
                        = Rows((j - 1) * P + 1, Min(j * P, N))

\* 23 rows, page size 5, ?page=2: 5 rows, page 2, other pages
C4_Witness ==
    /\ PaginatedOk /\ Len(db) = 23 /\ cfg.orphans = 0 /\ cfg.per_page = PyInt(5)
    /\ last.GET = {<<PAGE, <<"2">> >>}
    /\ Stored.objects = <<6, 7, 8, 9, 10>>
    /\ Stored.page.number = 2
    /\ Stored.has_other_pages

\* C5: the page parameter is 'last' and the collection has at least one
\* page: the page served is number total_pages, has no next page, and holds
\* the tail of the collection.
C5_LastPage ==
    (/\ Paginated /\ QueryHas(last.GET, PAGE) /\ QueryGet(last.GET, PAGE) = LAST
     /\ HasClaimedPerPage(last.GET)
     /\ LET pr == Paginator(db, ClaimedPerPage(last.GET), cfg.orphans,
                            cfg.allow_empty_first_page)
        IN  num_pages(pr).raised = NoExc /\ num_pages(pr).v >= 1)
    => LET total == num_pages(Stored.paginator).v
           n     == Len(Stored.objects)
       IN  /\ last.out.raised = NoExc
           /\ Stored.page.number = total
           /\ ~(Stored.page.number < total)
           /\ Stored.objects = Rows(Len(db) - n + 1, Len(db))
           /\ n = Len(db) - (total - 1) * ClaimedPerPage(last.GET)

\* 23 rows, page size 5, ?page=last: the 3 rows of page 5
C5_Witness ==
    /\ PaginatedOk /\ Len(db) = 23 /\ cfg.orphans = 0 /\ cfg.per_page = PyInt(5)
    /\ last.GET = {<<PAGE, LAST>>}
    /\ Stored.page.number = 5
    /\ Stored.objects = <<21, 22, 23>>

\* the page parameter is no integer and not 'last', or an integer outside
\* [1, total_pages]
InvalidPageToken(GET) ==
    /\ QueryHas(GET, PAGE)
    /\ \/ QueryGet(GET, PAGE) \notin IntTokens \cup {LAST}
       \/ /\ QueryGet(GET, PAGE) \in IntTokens
          /\ HasClaimedPerPage(GET)
          /\ ClaimedPerPage(GET) >= 1
          /\ ClaimedInt(QueryGet(GET, PAGE)) \notin
                1..num_pages(Paginator(db, ClaimedPerPage(GET), cfg.orphans,
                                       cfg.allow_empty_first_page)).v

\* C6: an invalid page parameter makes paginate_queryset fail with Http404
\* and leaves the request's accessories as they were.
C6_InvalidPage ==
    (Paginated /\ InvalidPageToken(last.GET))
    => /\ last.out.raised = "Http404"
       /\ accessories[last.request] = last.before

\* C7: a numeric page-size argument is the page size whatever the request
\* holds; a non-numeric one names the query parameter whose integer value
\* is the page size.
C7_EffectivePageSize ==
    (Paginated /\ HasClaimedPerPage(last.GET))
    => /\ last.out.raised \notin {"KeyError", "ValueError"}
       /\ last.out.raised = NoExc
            => Stored.paginator.per_page = ClaimedPerPage(last.GET)

\* 23 rows, ?page_size=10&page=3: per_page 10, page 3, 3 rows
C7_Witness ==
    /\ PaginatedOk /\ Len(db) = 23 /\ cfg.per_page = PyStr(PAGE_SIZE)
    /\ cfg.orphans = 0
    /\ last.GET = {<<PAGE, <<"3">> >>, <<PAGE_SIZE, <<"1", "0">> >>}
    /\ Stored.paginator.per_page = 10
    /\ Stored.page.number = 3
    /\ Len(Stored.objects) = 3

\* the rows the last page would hold without orphans
WouldBeLast(N, P) == N - (CeilOf(N, P) - 1) * P

OrphanCase ==
    /\ PaginatedOk /\ Len(db) >= 1 /\ cfg.orphans > 0
    /\ ClaimedPerPage(last.GET) >= 1

BadSource == (cfg.model # None) <=> (cfg.queryset # None)

\* C10: a list_view or template_list_view given both model and queryset, or
\* neither, is a configuration error raised before any request is
\* processed: whatever request reaches such a decorator, the configuration
\* error is all it yields, no request is served and the handler is never
\* invoked (giving both never silently selects one of the two).
C10_ConfigurationError ==
    (BadSource /\ last.op \in {"list_view", "template_list_view"})
    => /\ last.out.raised = "ImproperlyConfigured"
       /\ last.out.calls = <<>>

\* the collection a claim speaks of: the rows of the configured queryset, or
\* all rows of the model
ResolvedCollection ==
    IF cfg.model # None THEN db
    ELSE IF cfg.queryset.how = "order_by_desc" THEN Reverse(db) ELSE db

\* C11: for list_view given exactly one of model and queryset, without
\* pagination and with the methods argument omitted, a non-OPTIONS request
\* made while allow_empty is false and the resolved collection has no member
\* fails with Http404 'Empty list' and the handler is not invoked; in every
\* other case the handler is invoked with the collection as its second
\* positional argument.
C11_NonEmptyEnforcement ==
    (last.op = "list_view" /\ ~BadSource /\ ~cfg.paginate
        /\ cfg.methods = None /\ last.method # "OPTIONS")
    => IF ~cfg.allow_empty /\ ResolvedCollection = <<>>
       THEN /\ last.out.raised = "Http404"
            /\ last.out.msg = "Empty list"
            /\ last.out.calls = <<>>
       ELSE /\ last.out.raised = NoExc
            /\ Len(last.out.calls) = 1
            /\ last.out.calls[1].args = <<ResolvedCollection>>

(***************************************************************************)
(* Claims about detail_view                                                *)
(***************************************************************************)
\* the stored rows matching the lookup of the last request
Matching == {w \in db.rows : w[cfg.field] = last.kwargs[cfg.kwarg]}

\* C12: detail_view invokes the handler only with the lookup key removed from
\* the keyword arguments and the one matching entity under 'widget', the other
\* arguments as they came; a request whose method passes the gate and whose
\* lookup matches exactly one entity invokes the handler once; when no entity
\* matches, Http404 is raised and the handler is not invoked.
C12_ObjectResolver ==
    last.op = "detail_view"
    => /\ \A i \in 1..Len(last.out.calls) :
            /\ cfg.kwarg \notin DOMAIN last.out.calls[i].kwargs
            /\ last.out.calls[i].kwargs =
                  DictPop(last.kwargs, cfg.kwarg) @@ [widget |-> last.out.calls[i].kwargs.widget]
            /\ last.out.calls[i].kwargs.widget \in Matching
            /\ last.out.calls[i].args = last.args
       /\ (Cardinality(Matching) = 1 /\ last.method # "OPTIONS"
              /\ In(last.method, ClaimedAllowList(cfg.methods)))
          => /\ last.out.raised = NoExc
             /\ Len(last.out.calls) = 1
             /\ last.out.ret = last.hres
       /\ Matching = {}
          => /\ last.out.raised = "Http404"
             /\ last.out.calls = <<>>

\* a lookup by text found the one widget and handed it to the handler
\* (DetailView.test_detail_view_with_field)
C12_Witness ==
    /\ last.op = "detail_view" /\ cfg.field = "text"
    /\ Cardinality(db.rows) = 2
    /\ Len(last.out.calls) = 1
    /\ last.out.calls[1].kwargs.widget.text = last.kwargs.text
    /\ "slug" \in DOMAIN last.out.calls[1].kwargs

\* a lookup matching no widget raised Http404 (DetailView.test_detail_view_404)
C12_WitnessNotFound ==
    /\ last.op = "detail_view" /\ cfg.field = "pk"
    /\ db.rows # {} /\ Matching = {}
    /\ last.out.raised = "Http404"

(***************************************************************************)
(* Claims about the form and edit views                                    *)
(***************************************************************************)
\* the last request passes the method gate of the configured allow-list
PassesGate ==
    last.method # "OPTIONS" /\ In(last.method, ClaimedAllowList(cfg.methods))

\* C13: the form a form_view (of edit.py or form.py) hands to the handler
\* under the keyword 'form' is an instance of the configured class made from
\* this request alone, bound to the submitted data iff the method is POST
\* and without data otherwise; a request that passes the method gate (and,
\* for edit.form_view, brings no keyword argument 'form' of its own) invokes
\* the handler once with it.
C13_FormBinding ==
    last.op \in {"form_view", "form.form_view"}
    => /\ \A i \in 1..Len(last.out.calls) :
            LET form == last.out.calls[i].kwargs.form
            IN  /\ form.cls = cfg.form
                /\ form.is_bound <=> last.method = "POST"
                /\ form.data = IF last.method = "POST" THEN PyDict(last.POST)
                               ELSE None
       /\ (PassesGate /\ (last.op = "form.form_view"
                             \/ "form" \notin DOMAIN last.kwargs))
          => Len(last.out.calls) = 1

\* a POST of name and age reached the handler as a bound, valid TestForm
\* (FormView.test_form_view)
C13_Witness ==
    /\ last.op = "form_view" /\ last.method = "POST"
    /\ last.POST = [name |-> "Sally", age |-> "5"]
    /\ Len(last.out.calls) = 1
    /\ last.out.calls[1].kwargs.form.is_bound
    /\ is_valid(last.out.calls[1].kwargs.form)

\* the submissions that fill in every required field of their form
ValidPosts == {[name |-> "Sally", age |-> "5"], [text |-> "a"], [text |-> "b"]}

\* the form class of the last request
LastFormClass == IF last.op = "create_view" THEN WidgetForm ELSE cfg.form

\* the last request was a POST of a valid form
ValidPost == last.method = "POST" /\ last.POST \in ValidPosts

\* C14: a request answered by edit.form_view or create_view saves the form
\* exactly once, and before the handler runs, iff it is a POST whose form is
\* valid and the form class has save: the table then holds exactly one row
\* more, with a new pk and the submitted text, and the handler sees that row
\* as the form's instance; in every other case the table is unchanged.
C14_FormPersistence ==
    (last.op \in {"form_view", "create_view"} /\ last.out.raised = NoExc)
    => IF ValidPost /\ LastFormClass.has_save
       THEN /\ Cardinality(db.rows) = Cardinality(last.before.rows) + 1
            /\ \E row \in db.rows :
                  /\ db.rows = last.before.rows \cup {row}
                  /\ \A w \in last.before.rows : w.pk # row.pk
                  /\ row.text = last.POST.text
                  /\ \A i \in 1..Len(last.out.calls) :
                        last.out.calls[i].kwargs.form.instance = row
       ELSE db = last.before

\* a POST of a text through create_view added the widget, which the handler
\* saw saved (CreateView.test_create_view)
C14_Witness ==
    /\ last.op = "create_view" /\ last.method = "POST"
    /\ last.POST = [text |-> "b"]
    /\ Cardinality(db.rows) = 2 /\ Cardinality(last.before.rows) = 1
    /\ Len(last.out.calls) = 1
    /\ last.out.calls[1].kwargs.form.instance \in db.rows
    /\ last.out.ret = redirect("https://www.google.com/")

\* C15: a request through edit.form_view that passes the method gate (and
\* brings no keyword argument 'form' of its own) is answered by a redirect
\* to success_url iff success_url is configured and the request is a POST
\* whose form is valid; in every other case the handler is invoked once with
\* the form and its own response is returned unchanged.
C15_SuccessRedirect ==
    (last.op = "form_view" /\ PassesGate /\ "form" \notin DOMAIN last.kwargs)
    => /\ last.out.raised = NoExc
       /\ IF cfg.success_url # None /\ ValidPost
          THEN /\ last.out.ret.kind = "HttpResponseRedirect"
               /\ last.out.ret.status = 302
               /\ last.out.ret.Location = cfg.success_url.v
          ELSE /\ Len(last.out.calls) = 1
               /\ "form" \in DOMAIN last.out.calls[1].kwargs
               /\ last.out.ret = last.hres

\* an invalid POST to a form_view with success_url got the handler's own
\* response (FormView.test_success_url)
C15_Witness ==
    /\ last.op = "form_view" /\ last.method = "POST"
    /\ cfg.success_url # None /\ cfg.form = TestForm
    /\ last.POST = [name |-> "Sally"]
    /\ last.hres # None
    /\ last.out.ret = last.hres
    /\ last.out.calls[1].kwargs.form.is_bound

\* the rows the lookup of the last request matched when it arrived, and
\* those it would match now
Addressed == {w \in last.before.rows : w[cfg.field] = last.kwargs[cfg.kwarg]}

AddressedNow == {w \in db.rows : w[cfg.field] = last.kwargs[cfg.kwarg]}

\* what C16 says of one request through a delete_view with success_url
DeleteStep ==
    (last.op = "delete_view" /\ cfg.success_url # None)
    => /\ (Cardinality(Addressed) = 1 /\ PassesGate /\ last.method # "POST")
          => /\ db = last.before
             /\ last.out.raised = NoExc
             /\ Len(last.out.calls) = 1
             /\ last.out.calls[1].kwargs.widget \in Addressed
             /\ last.out.ret = last.hres
       /\ (Cardinality(Addressed) = 1 /\ PassesGate /\ last.method = "POST")
          => /\ db.rows = last.before.rows \ Addressed
             /\ AddressedNow = {}
             /\ last.out.raised = NoExc
             /\ last.out.ret = redirect(cfg.success_url.v)
       /\ Addressed = {}
          => /\ db = last.before
             /\ last.out.raised = "Http404"
             /\ last.out.calls = <<>>

\* C16: under a delete_view with success_url, a request addressing a stored
\* entity e with a method other than POST returns the handler's response and
\* leaves e stored; a POST addressing e deletes e and returns a redirect to
\* success_url; a request addressing no stored entity raises Http404 without
\* invoking the handler; and no request brings a row back, so every request
\* addressing e after its deletion is of that last kind.
C16_DeleteOperation ==
    /\ []DeleteStep
    /\ [][cfg.decorator = "delete_view" => db'.rows \subseteq db.rows]_vars

\* a POST deleted one of two widgets and was answered by the redirect
C16_WitnessDeleted ==
    /\ last.op = "delete_view" /\ last.method = "POST"
    /\ cfg.success_url # None
    /\ Cardinality(last.before.rows) = 2 /\ Cardinality(db.rows) = 1
    /\ last.out.ret = redirect(cfg.success_url.v)

\* after both widgets were deleted, a request addressing the second raised
\* Http404
C16_Witness ==
    /\ last.op = "delete_view" /\ cfg.field = "pk"
    /\ db.rows = {} /\ db.next_pk = 3
    /\ last.kwargs.id = 2
    /\ last.out.raised = "Http404"

\* the one entity the last request addressed
TheAddressed == CHOOSE w \in Addressed : TRUE

\* the entity as a valid POST of the last request leaves it
Updated == WidgetRow(TheAddressed.pk, last.POST.text)

\* C17: update_view resolves the entity first, and a lookup matching nothing
\* raises Http404 without invoking the handler or touching the table.  For
\* a request that addresses one entity and passes the method gate: a
\* non-POST leaves the table unchanged and hands the handler the entity and
\* an unbound form attached to it; a valid POST saves the form once before
\* the handler runs (the entity's row holds the submitted text, no row is
\* added), hands the handler the saved instance as the entity and as the
\* form's instance, and returns the redirect to success_url if one is
\* configured and the handler's response otherwise; an invalid POST leaves
\* the table unchanged, invokes the handler with the bound form and returns
\* its response.
C17_UpdateOperation ==
    last.op = "update_view"
    => /\ Addressed = {}
          => /\ last.out.raised = "Http404"
             /\ last.out.calls = <<>>
             /\ db = last.before
       /\ (Cardinality(Addressed) = 1 /\ PassesGate)
          => /\ last.out.raised = NoExc
             /\ Len(last.out.calls) = 1
             /\ LET kw == last.out.calls[1].kwargs
                IN  IF last.method # "POST"
                    THEN /\ db = last.before
                         /\ ~kw.form.is_bound
                         /\ kw.form.instance = TheAddressed
                         /\ kw.widget = TheAddressed
                         /\ last.out.ret = last.hres
                    ELSE IF ValidPost
                    THEN /\ db.rows = (last.before.rows \ Addressed) \cup {Updated}
                         /\ db.next_pk = last.before.next_pk
                         /\ kw.form.instance = Updated
                         /\ kw.widget = Updated
                         /\ last.out.ret = IF cfg.success_url # None
                                           THEN redirect(cfg.success_url.v)
                                           ELSE last.hres
                    ELSE /\ db = last.before
                         /\ kw.form.is_bound
                         /\ kw.widget = TheAddressed
                         /\ last.out.ret = last.hres

\* a valid POST changed the text of a widget, and the handler saw the
\* changed widget
C17_Witness ==
    /\ last.op = "update_view" /\ last.method = "POST"
    /\ last.POST = [text |-> "b"]
    /\ Cardinality(Addressed) = 1 /\ TheAddressed.text = "a"
    /\ Len(last.out.calls) = 1
    /\ last.out.calls[1].kwargs.widget.text = "b"
    /\ last.out.calls[1].kwargs.widget \in db.rows

C19_RedirectView ==
    (last.op = "redirect_view" /\ PassesGate)
    => /\ last.out.raised = NoExc
       /\ IF last.hres \in {None, PyStr(""), PyBool(FALSE)}
          THEN last.out.ret.status = 410
          ELSE /\ last.out.ret.status = IF cfg.permanent THEN 301 ELSE 302
               /\ last.out.ret.Location =
                     IF ~cfg.query_string THEN last.hres.v
                     ELSE IF last.META = PyStr("q=test")
                     THEN last.hres.v \o "?q=test"
                     ELSE last.hres.v \o "?"

\* query_string=True and no query string: the Location ends in '?'
\* (RedirectView.test_redirect)
C19_Witness ==
    /\ last.op = "redirect_view" /\ last.method = "GET"
    /\ ~cfg.permanent /\ cfg.query_string
    /\ last.META = PyStr("")
    /\ last.out.ret = HttpResponseRedirect("http://www.google.com/?")

(***************************************************************************)
(* Claims about the pagination of list_view and template_list_view         *)
(***************************************************************************)
\* C20: whenever a list_view or template_list_view configured with
\* paginate=True invokes the handler, the handler gets the collection as
\* its second positional argument and, as the keyword argument 'pagination',
\* the dict stored under 'pagination' in the request's accessories.
C20_PaginationHandOff ==
    (last.op \in {"list_view", "template_list_view"} /\ cfg.paginate)
    => \A i \in 1..Len(last.out.calls) :
          /\ Len(last.out.calls[i].args) >= 1
          /\ last.out.calls[i].args[1] = ResolvedCollection
          /\ "pagination" \in DOMAIN last.out.calls[i].kwargs
          /\ last.out.calls[i].kwargs.pagination =
                accessories[last.request].d.pagination

(***************************************************************************)
(* Claims about the request's accessories under view()                     *)
(***************************************************************************)
\* C21: whenever view() invokes the handler, the request has its accessories
\* dict at that moment: the dict it had before the call, or an empty one
\* created by view() when it had none.
C21_GateCreatesStore ==
    last.op = "view"
    => \A i \in 1..Len(last.out.calls) :
          /\ last.out.calls[i].accessories.has
          /\ last.out.calls[i].accessories.d =
                IF accessories[last.request].has
                THEN accessories[last.request].d ELSE EmptyDict

(***************************************************************************)
(* Claims about the failures of a request                                  *)
(***************************************************************************)
\* the last request addressed an entity that is not stored
MissingEntity ==
    \/ last.op \in DetailDecorators /\ Matching = {}
    \/ last.op \in {"update_view", "delete_view"} /\ Addressed = {}

\* the last request went to a list view given a model or a queryset
ListRequest ==
    last.op \in ListDecorators /\ (cfg.model # None \/ cfg.queryset # None)

\* ... and found the collection empty though allow_empty is false
EmptyDisallowed ==
    ListRequest /\ ~cfg.allow_empty /\ ResolvedCollection = <<>>

\* ... or asked for the page 'x' of a collection paginated by 2
InvalidListPage ==
    /\ ListRequest /\ cfg.paginate /\ cfg.page_size = PyInt(2)
    /\ last.GET = {<<PAGE, <<"x">> >>}

PerRequestFailure == MissingEntity \/ EmptyDisallowed \/ InvalidListPage

UnusablePageSize(GET) ==
    /\ cfg.per_page.t = "str" /\ cfg.per_page.v \notin IntTokens
    /\ \/ ~QueryHas(GET, cfg.per_page.v)
       \/ QueryGet(GET, cfg.per_page.v) \notin IntTokens

\* C23: when the per_page argument names a query parameter that the request
\* lacks or that holds no integer, paginate_queryset fails with Http404 and
\* leaves the request's accessories as they were.
C23_UnusablePageSize ==
    (Paginated /\ UnusablePageSize(last.GET))
    => /\ last.out.raised = "Http404"
       /\ accessories[last.request] = last.before

\* C24: when the effective page size is zero or negative, paginate_queryset
\* fails with an error, whatever the page requested and the collection, and
\* leaves the request's accessories as they were: no Page Result is produced
\* or stored.
C24_NonPositivePageSize ==
    (Paginated /\ HasClaimedPerPage(last.GET) /\ ClaimedPerPage(last.GET) <= 0)
    => /\ last.out.raised # NoExc
       /\ accessories[last.request] = last.before

(***************************************************************************)
(* Claims about the gate underneath other decorators                       *)
(***************************************************************************)
\* the decorator was given an explicit, non-empty allow-list
ExplicitAllowList == cfg.methods # None /\ Len(cfg.methods.v) > 0

\* C25: under template_view and redirect_view with an allow-list M, a request
\* whose method is not in M is answered by the gate's 405 response itself,
\* and an OPTIONS request by the gate's 200 Allow response itself; the
\* handler is not invoked and nothing is rendered or redirected.
C25_ShortCircuitSurvives ==
    (last.op \in {"template_view", "redirect_view"} /\ ExplicitAllowList)
    => /\ last.method = "OPTIONS"
          => /\ last.out.raised = NoExc
             /\ last.out.calls = <<>>
             /\ last.out.ret = options(cfg.methods.v)
       /\ (last.method # "OPTIONS" /\ ~In(last.method, cfg.methods.v))
          => /\ last.out.raised = NoExc
             /\ last.out.calls = <<>>
             /\ last.out.ret = HttpResponseNotAllowed(cfg.methods.v)

\* C26: for list_view given a model, no pagination and an explicit, non-empty
\* allow-list M, a request that finds a collection to serve invokes the
\* handler once with (request, collection) and returns its result when its
\* method is in M and is not OPTIONS, and returns 405 without invoking the
\* handler when its method is not in M.
C26_ListViewGate ==
    (last.op = "list_view" /\ ExplicitAllowList /\ ~BadSource /\ ~cfg.paginate
        /\ cfg.model # None /\ (cfg.allow_empty \/ db # <<>>))
    => /\ (last.method # "OPTIONS" /\ In(last.method, cfg.methods.v))
          => /\ last.out.raised = NoExc
             /\ Len(last.out.calls) = 1
             /\ last.out.calls[1].request = last.request
             /\ last.out.calls[1].args = <<ResolvedCollection>>
             /\ last.out.ret = last.hres
       /\ (last.method # "OPTIONS" /\ ~In(last.method, cfg.methods.v))
          => /\ last.out.raised = NoExc
             /\ last.out.calls = <<>>
             /\ last.out.ret = HttpResponseNotAllowed(cfg.methods.v)

(***************************************************************************)
(* Claims about the gate underneath the editing decorators                 *)
(***************************************************************************)
\* the last request was a POST to an editing decorator whose allow-list does
\* not contain POST, free of any other cause of failure: a form view not
\* given a 'form' keyword argument, or an update or delete addressing
\* exactly one stored entity
GatedOutPost ==
    /\ last.op \in {"form_view", "create_view", "update_view", "delete_view"}
    /\ last.method = "POST"
    /\ ExplicitAllowList /\ ~In("POST", cfg.methods.v)
    /\ IF last.op \in {"update_view", "delete_view"}
       THEN Cardinality(Addressed) = 1
       ELSE "form" \notin DOMAIN last.kwargs

\* C27: a POST request to edit.form_view, create_view, update_view or
\* delete_view whose allow-list does not contain POST returns the 405
\* response, the handler is not invoked and the table of entities is what it
\* was before the request.
C27_GatedOutNoEffect ==
    GatedOutPost
    => /\ last.out.raised = NoExc
       /\ last.out.calls = <<>>
       /\ last.out.ret = HttpResponseNotAllowed(cfg.methods.v)
       /\ db = last.before

(***************************************************************************)
(* Claims about a queryset that holds no row                               *)
(***************************************************************************)
\* C28: list_view given only a queryset, allow_empty true, no pagination and
\* no allow-list serves a non-OPTIONS request made while the queryset
\* matches no entity: the handler is invoked once with the empty collection,
\* and no configuration error is raised.
C28_EmptyQuerysetServed ==
    (last.op = "list_view" /\ cfg.model = None /\ cfg.queryset # None
        /\ cfg.allow_empty /\ ~cfg.paginate /\ cfg.methods = None
        /\ last.method # "OPTIONS" /\ ResolvedCollection = <<>>)
    => /\ last.out.raised = NoExc
       /\ Len(last.out.calls) = 1
       /\ last.out.calls[1].args = <<(<<>>)>>
       /\ last.out.ret = last.hres

(***************************************************************************)
(* Claims about an empty allow-list                                        *)
(***************************************************************************)
\* C29: a view given an explicitly empty allow-list answers every request
\* whose method is not OPTIONS with 405, the handler never being invoked.
C29_EmptyAllowList ==
    (last.op = "view" /\ cfg.methods = MethodList(<<>>)
        /\ last.method # "OPTIONS")
    => /\ last.out.raised = NoExc
       /\ last.out.calls = <<>>
       /\ last.out.ret.status = 405

(***************************************************************************)
(* Claims about the accessories of several requests                        *)
(***************************************************************************)
\* C30: a call of accessorize or paginate_queryset on a request leaves the
\* accessories of every other request as they were; a call that stores
\* nothing leaves those of its own request as they were; a call that stores
\* leaves its request with a dict holding the names it had before and the
\* given names, the given names with the given values and every other name
\* with the value it had.  After any sequence of such calls the accessories
\* of each request hold, name by name, the last value stored for that
\* request, and a request nothing was stored for has none.
C30_StoreIsolation ==
    /\ \A r \in StoreRequests : accessories[r] = last.written[r]
    /\ last.op \in {"accessorize", "paginate_queryset"}
       => /\ \A r \in StoreRequests \ {last.request} :
                accessories[r] = last.before[r]
          /\ IF ~last.wrote
             THEN accessories[last.request] = last.before[last.request]
             ELSE LET now == accessories[last.request]
                      was == last.before[last.request]
                  IN  /\ now.has
                      /\ DOMAIN now.d = (DOMAIN was.d) \cup (DOMAIN last.kwargs)
                      /\ \A k \in DOMAIN last.kwargs : now.d[k] = last.kwargs[k]
                      /\ \A k \in (DOMAIN was.d) \ (DOMAIN last.kwargs) :
                            now.d[k] = was.d[k]

\* r1 was given form='x', r2 form='y' and a pagination of 'x', and then
\* paginate_queryset on r2 replaced that pagination by a page: r1 keeps its
\* form and has no pagination, r2 keeps its form
C30_Witness ==
    /\ last.op = "paginate_queryset" /\ last.request = "r2" /\ last.wrote
    /\ last.before["r2"].d = [form |-> PyStr("y"), pagination |-> PyStr("x")]
    /\ accessories["r1"].d = [form |-> PyStr("x")]
    /\ accessories["r2"].d["form"] = PyStr("y")
    /\ accessories["r2"].d["pagination"] # PyStr("x")
    /\ accessories["r2"].d["pagination"].page.number = 1

=============================================================================
